---- MODULE Spec2Model ----
(***************************************************************************)
(* A model of ujsondiff (src/ujsondiff/__init__.py): the structural diff   *)
(* of two JSON-like values (JsonDiffer._obj_diff and its helpers), the     *)
(* compact delta syntax (CompactJsonDiffSyntax.emit_* and .patch), the     *)
(* missing inverse (JsonDiffer.unpatch) and the marshalling layer          *)
(* (JsonDiffer.marshal / unmarshal).                                       *)
(*                                                                         *)
(* Python values are tagged records [t |-> tag, v |-> payload]:            *)
(*   int   an integer                  str   a sequence of characters      *)
(*   sym   a Symbol (v is its label)   list  a sequence of values          *)
(*   tuple a sequence of values        set   a set of hashable values      *)
(*   dict  a sequence of <<key, value>> entries in insertion order         *)
(*   err   a raised exception (v is the exception class)                   *)
(* Similarity scores are exact rationals <<numerator, denominator>>.       *)
(***************************************************************************)
EXTENDS Integers, Sequences, FiniteSets, TLC

VARIABLES a, b, same, d, s, out, after, esc, wire, pc

vars == <<a, b, same, d, s, out, after, esc, wire, pc>>

(***************************************************************************)
(* Bounds of the input universe.                                           *)
(***************************************************************************)
MaxInt == 2
MaxLen == 3

(***************************************************************************)
(* Value constructors.                                                     *)
(***************************************************************************)
Num(n) == [t |-> "int", v |-> n]
Str(cs) == [t |-> "str", v |-> cs]
Sym(l) == [t |-> "sym", v |-> l]
List(xs) == [t |-> "list", v |-> xs]
Tuple(xs) == [t |-> "tuple", v |-> xs]
Set(xs) == [t |-> "set", v |-> xs]
Dict(es) == [t |-> "dict", v |-> es]
Err(e) == [t |-> "err", v |-> e]
None == [t |-> "none", v |-> 0]

IsErr(x) == x.t = "err"

(***************************************************************************)
(* The reserved marker symbols (ujsondiff.symbols).                        *)
(***************************************************************************)
missing == Sym(<<"m", "i", "s", "s", "i", "n", "g">>)
add == Sym(<<"a", "d", "d">>)
delete == Sym(<<"d", "e", "l", "e", "t", "e">>)
discard == Sym(<<"d", "i", "s", "c", "a", "r", "d">>)
insert == Sym(<<"i", "n", "s", "e", "r", "t">>)
replace == Sym(<<"r", "e", "p", "l", "a", "c", "e">>)
all_symbols == {missing, add, delete, discard, insert, replace}

(***************************************************************************)
(* Exact rational arithmetic for the similarity scores.                    *)
(***************************************************************************)
RECURSIVE Gcd(_, _)
Gcd(m, n) == IF n = 0 THEN m ELSE Gcd(n, m % n)

Rat(n, m) == LET g == Gcd(n, m) IN <<n \div g, m \div g>>
Zero == Rat(0, 1)
One == Rat(1, 1)
RAdd(x, y) == Rat(x[1] * y[2] + y[1] * x[2], x[2] * y[2])
RDivInt(x, n) == Rat(x[1], x[2] * n)
RLess(x, y) == x[1] * y[2] < y[1] * x[2]
RLeq(x, y) == x[1] * y[2] <= y[1] * x[2]
RMax(x, y) == IF RLess(x, y) THEN y ELSE x

RECURSIVE RSum(_)
RSum(xs) == IF xs = <<>> THEN Zero ELSE RAdd(Head(xs), RSum(Tail(xs)))

(***************************************************************************)
(* Python container primitives.                                            *)
(***************************************************************************)
Reverse(xs) == [i \in 1..Len(xs) |-> xs[Len(xs) + 1 - i]]

\* Iteration order of a Python set: some fixed order of its elements.
RECURSIVE SetToSeq(_)
SetToSeq(S) ==
    IF S = {} THEN <<>>
    ELSE LET x == CHOOSE y \in S : TRUE IN <<x>> \o SetToSeq(S \ {x})

DictHas(es, k) == \E i \in 1..Len(es) : es[i][1] = k
DictGet(es, k) ==
    IF DictHas(es, k) THEN es[CHOOSE i \in 1..Len(es) : es[i][1] = k][2]
    ELSE missing
DictSet(es, k, x) ==
    IF DictHas(es, k)
    THEN [i \in 1..Len(es) |-> IF es[i][1] = k THEN <<k, x>> ELSE es[i]]
    ELSE Append(es, <<k, x>>)
DictDel(es, k) == SelectSeq(es, LAMBDA e : e[1] # k)
DictKeys(es) == [i \in 1..Len(es) |-> es[i][1]]

RECURSIVE DictUpdate(_, _)
DictUpdate(es, more) ==
    IF more = <<>> THEN es
    ELSE DictUpdate(DictSet(es, more[1][1], more[1][2]), Tail(more))

\* Python's == on values: dicts compare without regard to insertion order.
RECURSIVE Canon(_)
Canon(x) ==
    CASE x.t = "dict" ->
           [t |-> "dict", v |-> {<<Canon(x.v[i][1]), Canon(x.v[i][2])>> : i \in 1..Len(x.v)}]
      [] x.t \in {"list", "tuple"} ->
           [t |-> x.t, v |-> [i \in 1..Len(x.v) |-> Canon(x.v[i])]]
      [] x.t = "set" -> [t |-> "set", v |-> {Canon(y) : y \in x.v}]
      [] OTHER -> x
PyEq(x, y) == Canon(x) = Canon(y)

(***************************************************************************)
(* CompactJsonDiffSyntax.emit_*                                            *)
(***************************************************************************)
\* {replace: b} if isinstance(b, dict) else b
FullReplace(y) == IF y.t = "dict" THEN Dict(<<<<replace, y>>>>) ELSE y

\* s == 0.0 or len(removed) == len(a)
SetCollapsesOnZeroOnly(x, sc, removed) == sc = Zero
SetCollapses(x, sc, removed) == sc = Zero \/ Cardinality(removed) = Cardinality(x.v)

emit_set_diff(x, y, sc, added, removed) ==
    IF SetCollapses(x, sc, removed)
    THEN FullReplace(y)
    ELSE LET d1 == IF removed # {} THEN <<<<discard, Set(removed)>>>> ELSE <<>>
             d2 == IF added # {} THEN <<<<add, Set(added)>>>> ELSE <<>>
         IN Dict(d1 \o d2)

emit_list_diff(x, y, sc, inserted, changed, deleted) ==
    IF sc = Zero THEN FullReplace(y)
    ELSE IF sc = One THEN Dict(<<>>)
    ELSE LET d1 == IF inserted # <<>>
                   THEN DictSet(changed, insert, List(inserted))
                   ELSE changed
             d2 == IF deleted # <<>>
                   THEN DictSet(d1, delete,
                                List([i \in 1..Len(deleted) |-> deleted[i].v[1]]))
                   ELSE d1
         IN Dict(d2)

emit_dict_diff(x, y, sc, added, changed, removed) ==
    IF sc = Zero THEN FullReplace(y)
    ELSE IF sc = One THEN Dict(<<>>)
    ELSE LET d1 == DictUpdate(changed, added)
             d2 == IF removed # <<>>
                   THEN DictSet(d1, delete, List(DictKeys(removed)))
                   ELSE d1
         IN Dict(d2)

emit_value_diff(x, y, sc) ==
    IF sc = One THEN Dict(<<>>) ELSE FullReplace(y)

(***************************************************************************)
(* JsonDiffer._obj_diff and the per-shape differs.  Each returns the pair  *)
(* <<delta, similarity>>.                                                  *)
(***************************************************************************)
RECURSIVE ObjDiff(_, _, _)

\* The similarity table of _list_diff, filled row by row.
RECURSIVE FillC(_, _, _, _, _, _)
FillC(C, R, i, j, m, n) ==
    IF i > m THEN C
    ELSE IF j > n THEN FillC(C, R, i + 1, 1, m, n)
    ELSE FillC([C EXCEPT ![i][j] =
                   RMax(RMax(C[i][j - 1], C[i - 1][j]),
                        RAdd(C[i - 1][j - 1], R[i][j][2]))],
               R, i, j + 1, m, n)

\* The position recorded with a matched pair (X[i - 1], Y[j - 1]).
ChangePosSource(i, j) == i - 1
ChangePos(i, j) == j - 1

\* The backtrack of _list_diff_0, in the order the entries are appended to r.
\* An entry is the code's tuple (sign, value, pos, s); xi and yj record the
\* cell (i, j) it was appended at.
RECURSIVE Backtrack(_, _, _, _, _, _)
Backtrack(C, R, X, Y, i, j) ==
    IF i > 0 /\ j > 0 /\ RLess(Zero, R[i][j][2])
       /\ C[i][j] = RAdd(C[i - 1][j - 1], R[i][j][2])
    THEN <<[sign |-> 0, value |-> R[i][j][1], pos |-> ChangePos(i, j),
            s |-> R[i][j][2], xi |-> i, yj |-> j]>>
         \o Backtrack(C, R, X, Y, i - 1, j - 1)
    ELSE IF j > 0 /\ (i = 0 \/ RLeq(C[i - 1][j], C[i][j - 1]))
    THEN <<[sign |-> 1, value |-> Y[j], pos |-> j - 1, s |-> Zero, xi |-> i, yj |-> j]>>
         \o Backtrack(C, R, X, Y, i, j - 1)
    ELSE IF i > 0 /\ (j = 0 \/ RLess(C[i][j - 1], C[i - 1][j]))
    THEN <<[sign |-> -1, value |-> X[i], pos |-> i - 1, s |-> Zero, xi |-> i, yj |-> j]>>
         \o Backtrack(C, R, X, Y, i - 1, j)
    ELSE <<>>

\* R[i][j] is _obj_diff(X[i - 1], Y[j - 1]), which the code recomputes at
\* every use.
PairDiffs(X, Y) ==
    [i \in 1..Len(X) |-> [j \in 1..Len(Y) |-> ObjDiff(X[i], Y[j], FALSE)]]

list_diff_0(C, X, Y) == Reverse(Backtrack(C, PairDiffs(X, Y), X, Y, Len(X), Len(Y)))

ListEdits(X, Y) ==
    LET m == Len(X)
        n == Len(Y)
        C0 == [i \in 0..m |-> [j \in 0..n |-> Zero]]
        C == FillC(C0, PairDiffs(X, Y), 1, 1, m, n)
    IN list_diff_0(C, X, Y)

\* deleted.insert(0, (pos, value)): the deletions end up in descending order.
DeletedAscending(del) == [i \in 1..Len(del) |-> Tuple(<<Num(del[i].pos), del[i].value>>)]
Deleted(del) == Reverse([i \in 1..Len(del) |-> Tuple(<<Num(del[i].pos), del[i].value>>)])

list_diff(x, y) ==
    LET X == x.v
        Y == y.v
        r == ListEdits(X, Y)
        ins == SelectSeq(r, LAMBDA e : e.sign = 1)
        del == SelectSeq(r, LAMBDA e : e.sign = -1)
        chg == SelectSeq(r, LAMBDA e : e.sign = 0 /\ RLess(e.s, One))
        inserted == [i \in 1..Len(ins) |-> Tuple(<<Num(ins[i].pos), ins[i].value>>)]
        deleted == Deleted(del)
        changed == [i \in 1..Len(chg) |-> <<Num(chg[i].pos), chg[i].value>>]
        tot_s == RSum([i \in 1..Len(r) |-> r[i].s])
        tot_n == Len(X) + Len(inserted)
        sc == IF tot_n = 0 THEN One ELSE RDivInt(tot_s, tot_n)
    IN <<emit_list_diff(x, y, sc, inserted, changed, deleted), sc>>

\* The ranking of _set_diff: all (removed, added) pairs, sorted by
\* descending similarity with a stable sort.
RECURSIVE StableInsert(_, _)
StableInsert(sorted, e) ==
    IF sorted = <<>> THEN <<e>>
    ELSE IF RLess(Head(sorted)[1], e[1]) THEN <<e>> \o sorted
    ELSE <<Head(sorted)>> \o StableInsert(Tail(sorted), e)

RECURSIVE StableSortDesc(_, _)
StableSortDesc(sorted, es) ==
    IF es = <<>> THEN sorted
    ELSE StableSortDesc(StableInsert(sorted, Head(es)), Tail(es))

RECURSIVE Greedy(_, _, _, _, _)
Greedy(ranking, r2, a2, s_common, n_common) ==
    IF ranking = <<>> THEN <<s_common, n_common>>
    ELSE LET e == Head(ranking)
             hit == e[2] \in r2 /\ e[3] \in a2
             r3 == IF hit THEN r2 \ {e[2]} ELSE r2
             a3 == IF hit THEN a2 \ {e[3]} ELSE a2
             s3 == IF hit THEN RAdd(s_common, e[1]) ELSE s_common
             n3 == IF hit THEN n_common + 1 ELSE n_common
         IN IF r3 = {} \/ a3 = {} THEN <<s3, n3>>
            ELSE Greedy(Tail(ranking), r3, a3, s3, n3)

set_diff(x, y) ==
    LET removed == x.v \ y.v
        added == y.v \ x.v
        rs == SetToSeq(removed)
        as == SetToSeq(added)
        pairs == [k \in 1..(Len(rs) * Len(as)) |->
                    LET i == ((k - 1) \div Len(as)) + 1
                        j == ((k - 1) % Len(as)) + 1
                    IN <<ObjDiff(rs[i], as[j], FALSE)[2], rs[i], as[j]>>]
        ranking == StableSortDesc(<<>>, pairs)
        n0 == Cardinality(x.v) - Cardinality(removed)
        g == Greedy(ranking, removed, added, Rat(n0, 1), n0)
        n_tot == Cardinality(x.v) + Cardinality(added)
        sc == IF n_tot # 0 THEN RDivInt(g[1], n_tot) ELSE One
    IN IF removed = {} /\ added = {} THEN <<Dict(<<>>), One>>
       ELSE <<emit_set_diff(x, y, sc, added, removed), sc>>

\* smatched += 0.5 + 0.5 * s
MatchWeightNoBase(sc) == RDivInt(sc, 2)
MatchWeightFull(sc) == RAdd(Rat(1, 2), sc)
MatchWeight(sc) == RAdd(Rat(1, 2), RDivInt(sc, 2))

dict_diff(x, y) ==
    LET A == x.v
        B == y.v
        W == [i \in 1..Len(A) |-> DictGet(B, A[i][1])]
        R == [i \in 1..Len(A) |->
                 IF W[i].t = "sym" THEN <<None, Zero>>
                 ELSE ObjDiff(A[i][2], W[i], FALSE)]
        idx == [i \in 1..Len(A) |-> i]
        rem == SelectSeq(idx, LAMBDA i : W[i] = missing)
        mat == SelectSeq(idx, LAMBDA i : W[i].t # "sym")
        chg == SelectSeq(mat, LAMBDA i : RLess(R[i][2], One))
        removed == [k \in 1..Len(rem) |-> A[rem[k]]]
        changed == [k \in 1..Len(chg) |-> <<A[chg[k]][1], R[chg[k]][1]>>]
        added == SelectSeq(B, LAMBDA e : ~DictHas(A, e[1]))
        smatched == RSum([k \in 1..Len(mat) |-> MatchWeight(R[mat[k]][2])])
        n_tot == Len(removed) + Len(mat) + Len(added)
        sc == IF n_tot # 0 THEN RDivInt(smatched, n_tot) ELSE One
    IN <<emit_dict_diff(x, y, sc, added, changed, removed), sc>>

\* ident models "a is b": the two operands are one and the same object.
ObjDiff(x, y, ident) ==
    IF ident THEN <<emit_value_diff(x, y, One), One>>
    ELSE IF x.t = "dict" /\ y.t = "dict" THEN dict_diff(x, y)
    ELSE IF x.t = "tuple" /\ y.t = "tuple" THEN list_diff(x, y)
    ELSE IF x.t = "list" /\ y.t = "list" THEN list_diff(x, y)
    ELSE IF x.t = "set" /\ y.t = "set" THEN set_diff(x, y)
    ELSE IF ~PyEq(x, y) THEN <<emit_value_diff(x, y, Zero), Zero>>
    ELSE <<emit_value_diff(x, y, One), One>>

(***************************************************************************)
(* CompactJsonDiffSyntax.patch.  PatchR returns the record                 *)
(*   res   the returned value, or Err(e) when exception e is raised        *)
(*   base  the caller's base object as it is when the call ends            *)
(* The loops carry the working container (work), the caller's object       *)
(* (base) and the raised exception (err, None while there is none).        *)
(***************************************************************************)
\* patch works on dict(a), list(a), set(a): a fresh container, not the base.
AliasesBase == FALSE
CopiesBase == TRUE

NoErr(st) == st.err = None
Fail(st, e) == [st EXCEPT !.err = Err(e)]
Store(st, w) == [st EXCEPT !.work = w, !.base = IF CopiesBase THEN @ ELSE w]

RECURSIVE Hashable(_)
Hashable(x) ==
    \/ x.t \in {"int", "str", "sym"}
    \/ x.t = "tuple" /\ \A i \in 1..Len(x.v) : Hashable(x.v[i])

\* "for x in v": the elements a Python for loop draws from v.
Iterable(x) == x.t \in {"list", "tuple", "set", "dict", "str"}
IterSeq(x) ==
    CASE x.t \in {"list", "tuple"} -> x.v
      [] x.t = "set" -> SetToSeq(x.v)
      [] x.t = "dict" -> DictKeys(x.v)
      [] x.t = "str" -> [i \in 1..Len(x.v) |-> Str(<<x.v[i]>>)]

\* Python's index normalisation: a negative index counts from the end.
PyIndex(n, pos) == IF pos < 0 THEN pos + n ELSE pos
SeqRemove(xs, i) == [k \in 1..(Len(xs) - 1) |-> IF k < i THEN xs[k] ELSE xs[k + 1]]
SeqInsert(xs, i, x) ==
    [k \in 1..(Len(xs) + 1) |-> IF k < i THEN xs[k] ELSE IF k = i THEN x ELSE xs[k - 1]]

RECURSIVE PatchR(_, _)

\* for kdel in v: del a[kdel]
RECURSIVE DelKeys(_, _)
DelKeys(st, ks) ==
    IF ~NoErr(st) \/ ks = <<>> THEN st
    ELSE IF ~Hashable(Head(ks)) THEN Fail(st, "TypeError")
    ELSE IF ~DictHas(st.work.v, Head(ks)) THEN Fail(st, "KeyError")
    ELSE DelKeys(Store(st, Dict(DictDel(st.work.v, Head(ks)))), Tail(ks))

\* for k, v in d.items(): the map branch
RECURSIVE PatchDictLoop(_, _)
PatchDictLoop(st, items) ==
    IF ~NoErr(st) \/ items = <<>> THEN st
    ELSE LET k == items[1][1]
             v == items[1][2]
             av == DictGet(st.work.v, k)
         IN IF k = delete
            THEN IF ~Iterable(v) THEN Fail(st, "TypeError")
                 ELSE PatchDictLoop(DelKeys(st, IterSeq(v)), Tail(items))
            ELSE IF av = missing
            THEN PatchDictLoop(Store(st, Dict(DictSet(st.work.v, k, v))), Tail(items))
            ELSE LET r == PatchR(av, v)
                     \* the copy is shallow: av is the base's own member
                     st1 == IF r.base = av THEN st
                            ELSE [st EXCEPT !.base = Dict(DictSet(@.v, k, r.base)),
                                            !.work = Dict(DictSet(@.v, k, r.base))]
                 IN IF IsErr(r.res) THEN [st1 EXCEPT !.err = r.res]
                    ELSE PatchDictLoop(Store(st1, Dict(DictSet(st1.work.v, k, r.res))),
                                       Tail(items))

\* for pos in d[delete]: a.pop(pos)
RECURSIVE PopAll(_, _)
PopAll(st, ps) ==
    IF ~NoErr(st) \/ ps = <<>> THEN st
    ELSE LET n == Len(st.work.v)
             p == Head(ps)
             i == PyIndex(n, p.v)
         IN IF p.t # "int" THEN Fail(st, "TypeError")
            ELSE IF i < 0 \/ i >= n THEN Fail(st, "IndexError")
            ELSE PopAll(Store(st, List(SeqRemove(st.work.v, i + 1))), Tail(ps))

\* for pos, value in d[insert]: a.insert(pos, value)
RECURSIVE InsertAll(_, _)
InsertAll(st, es) ==
    IF ~NoErr(st) \/ es = <<>> THEN st
    ELSE LET e == Head(es)
             n == Len(st.work.v)
         IN IF ~Iterable(e) THEN Fail(st, "TypeError")
            ELSE IF Len(IterSeq(e)) # 2 THEN Fail(st, "ValueError")
            ELSE LET p == IterSeq(e)[1]
                     x == IterSeq(e)[2]
                     i == IF p.v < 0 THEN (IF p.v + n < 0 THEN 0 ELSE p.v + n)
                          ELSE (IF p.v > n THEN n ELSE p.v)
                 IN IF p.t # "int" THEN Fail(st, "TypeError")
                    ELSE InsertAll(Store(st, List(SeqInsert(st.work.v, i + 1, x))),
                                   Tail(es))

\* for k, v in d.items(): a[int(k)] = self.patch(a[int(k)], v)
\* (the strings of the model hold no digits: int(k) raises ValueError)
RECURSIVE ChangeAll(_, _)
ChangeAll(st, items) ==
    IF ~NoErr(st) \/ items = <<>> THEN st
    ELSE LET k == items[1][1]
             v == items[1][2]
             n == Len(st.work.v)
         IN IF k = delete \/ k = insert THEN ChangeAll(st, Tail(items))
            ELSE IF k.t = "str" THEN Fail(st, "ValueError")
            ELSE IF k.t # "int" THEN Fail(st, "TypeError")
            ELSE LET i == PyIndex(n, k.v)
                 IN IF i < 0 \/ i >= n THEN Fail(st, "IndexError")
                    ELSE LET av == st.work.v[i + 1]
                             r == PatchR(av, v)
                             st1 == IF r.base = av THEN st
                                    ELSE [st EXCEPT
                                            !.work = List([@.v EXCEPT ![i + 1] = r.base])]
                         IN IF IsErr(r.res) THEN [st1 EXCEPT !.err = r.res]
                            ELSE ChangeAll(
                                   Store(st1, List([st1.work.v EXCEPT ![i + 1] = r.res])),
                                   Tail(items))

PatchList(x, dd) ==
    LET st0 == [work |-> List(x.v), base |-> x, err |-> None]
        dl == DictGet(dd.v, delete)
        st1 == IF ~DictHas(dd.v, delete) THEN st0
               ELSE IF ~Iterable(dl) THEN Fail(st0, "TypeError")
               ELSE PopAll(st0, IterSeq(dl))
        il == DictGet(dd.v, insert)
        st2 == IF ~NoErr(st1) \/ ~DictHas(dd.v, insert) THEN st1
               ELSE IF ~Iterable(il) THEN Fail(st1, "TypeError")
               ELSE InsertAll(st1, IterSeq(il))
        st3 == ChangeAll(st2, dd.v)
    IN IF NoErr(st3)
       THEN [res |-> [t |-> x.t, v |-> st3.work.v],
             base |-> [t |-> x.t, v |-> st3.base.v]]
       ELSE [res |-> st3.err, base |-> [t |-> x.t, v |-> st3.base.v]]

\* for x in d[discard]: a.discard(x) and for x in d[add]: a.add(x)
RECURSIVE SetEach(_, _, _)
SetEach(st, xs, adding) ==
    IF ~NoErr(st) \/ xs = <<>> THEN st
    ELSE IF ~Hashable(Head(xs)) THEN Fail(st, "TypeError")
    ELSE SetEach(Store(st, Set(IF adding THEN st.work.v \cup {Head(xs)}
                                ELSE st.work.v \ {Head(xs)})),
                 Tail(xs), adding)

PatchSet(x, dd) ==
    LET st0 == [work |-> x, base |-> x, err |-> None]
        dl == DictGet(dd.v, discard)
        st1 == IF ~DictHas(dd.v, discard) THEN st0
               ELSE IF ~Iterable(dl) THEN Fail(st0, "TypeError")
               ELSE SetEach(st0, IterSeq(dl), FALSE)
        al == DictGet(dd.v, add)
        st2 == IF ~NoErr(st1) \/ ~DictHas(dd.v, add) THEN st1
               ELSE IF ~Iterable(al) THEN Fail(st1, "TypeError")
               ELSE SetEach(st1, IterSeq(al), TRUE)
    IN [res |-> IF NoErr(st2) THEN st2.work ELSE st2.err, base |-> st2.base]

PatchDict(x, dd) ==
    LET st == PatchDictLoop([work |-> x, base |-> x, err |-> None], dd.v)
    IN [res |-> IF NoErr(st) THEN st.work ELSE st.err, base |-> st.base]

PatchR(x, dd) ==
    IF dd.t = "dict"
    THEN IF dd.v = <<>> THEN [res |-> x, base |-> x]
         ELSE IF DictHas(dd.v, replace) THEN [res |-> DictGet(dd.v, replace), base |-> x]
         ELSE IF x.t = "dict" THEN PatchDict(x, dd)
         ELSE IF x.t \in {"list", "tuple"} THEN PatchList(x, dd)
         ELSE IF x.t = "set" THEN PatchSet(x, dd)
         ELSE [res |-> dd, base |-> x]
    ELSE [res |-> dd, base |-> x]

(***************************************************************************)
(* JsonDiffer._escape / marshal and _unescape / unmarshal.  e is the       *)
(* configured options.escape_str.                                          *)
(***************************************************************************)
StartsWith(xs, p) == Len(xs) >= Len(p) /\ SubSeq(xs, 1, Len(p)) = p

\* self._symbol_map = {escape_str + symbol.label: symbol for symbol in _all_symbols_}
InSymbolMap(e, cs) == \E sym \in all_symbols : e \o sym.v = cs
SymbolMapGet(e, cs) == CHOOSE sym \in all_symbols : e \o sym.v = cs

\* x[1:]
StripOne(e, cs) == SubSeq(cs, 2, Len(cs))

unescape(e, x) ==
    IF x.t = "str"
    THEN IF InSymbolMap(e, x.v) THEN SymbolMapGet(e, x.v)
         ELSE IF StartsWith(x.v, e) THEN Str(StripOne(e, x.v))
         ELSE x
    ELSE x

escape(e, o) ==
    IF o.t = "sym" THEN Str(e \o o.v)
    ELSE IF o.t = "str" /\ StartsWith(o.v, e) THEN Str(e \o o.v)
    ELSE o

\* {f(k): g(v) for k, v in d.items()}: a later entry overwrites an equal key.
RECURSIVE DictOf(_, _)
DictOf(acc, es) ==
    IF es = <<>> THEN acc ELSE DictOf(DictSet(acc, es[1][1], es[1][2]), Tail(es))

RECURSIVE marshal(_, _)
marshal(e, x) ==
    IF x.t = "dict"
    THEN Dict(DictOf(<<>>, [i \in 1..Len(x.v) |->
                              <<escape(e, x.v[i][1]), marshal(e, x.v[i][2])>>]))
    ELSE IF x.t \in {"list", "tuple"}
    THEN [t |-> x.t, v |-> [i \in 1..Len(x.v) |-> marshal(e, x.v[i])]]
    ELSE escape(e, x)

RECURSIVE unmarshal(_, _)
unmarshal(e, x) ==
    IF x.t = "dict"
    THEN Dict(DictOf(<<>>, [i \in 1..Len(x.v) |->
                              <<unescape(e, x.v[i][1]), unmarshal(e, x.v[i][2])>>]))
    ELSE IF x.t \in {"list", "tuple"}
    THEN [t |-> x.t, v |-> [i \in 1..Len(x.v) |-> unmarshal(e, x.v[i])]]
    ELSE unescape(e, x)

(***************************************************************************)
(* The bounded input universe: scalars, flat containers of scalars, and    *)
(* containers that nest one more level.                                    *)
(***************************************************************************)
SeqsUpTo(S, n) == UNION {[1..k -> S] : k \in 0..n}

Atoms == {Num(n) : n \in 1..MaxInt}
KeyX == Str(<<"x">>)
KeyY == Str(<<"y">>)

\* Dicts with keys among x, y, in either insertion order, values drawn from V.
DictsOver(V) ==
    {Dict(<<>>)}
    \cup {Dict(<<<<k, v1>>>>) : k \in {KeyX, KeyY}, v1 \in V}
    \cup {Dict(<<<<KeyX, v1>>, <<KeyY, v2>>>>) : v1 \in V, v2 \in V}
    \cup {Dict(<<<<KeyY, v1>>, <<KeyX, v2>>>>) : v1 \in V, v2 \in V}

FlatLists == {List(xs) : xs \in SeqsUpTo(Atoms, MaxLen)}
FlatTuples == {Tuple(xs) : xs \in SeqsUpTo(Atoms, MaxLen)}
FlatSets == {Set(S) : S \in SUBSET Atoms}
FlatDicts == DictsOver(Atoms)
Flat == Atoms \cup FlatLists \cup FlatTuples \cup FlatSets \cup FlatDicts

InnerDicts == {Dict(<<<<KeyX, Num(1)>>>>), Dict(<<<<KeyX, Num(2)>>>>)}
InnerLists == {List(<<u>>) : u \in Atoms}
InnerTuples == {Tuple(<<Num(1), u>>) : u \in Atoms}

NestedLists == {List(xs) : xs \in SeqsUpTo({Num(1)} \cup InnerDicts, MaxLen)}
NestedSets == {Set(S) : S \in SUBSET (Atoms \cup InnerTuples)}
NestedDicts == DictsOver({Num(1)} \cup InnerDicts \cup InnerLists)

\* The flat values with at most one member, for the pairs of mixed shape.
Size(x) ==
    IF x.t \in {"list", "tuple", "dict"} THEN Len(x.v)
    ELSE IF x.t = "set" THEN Cardinality(x.v) ELSE 0
Small == {x \in Flat : Size(x) <= 1}

InputPairs ==
    (Atoms \X Atoms) \cup (FlatLists \X FlatLists) \cup (FlatTuples \X FlatTuples)
    \cup (FlatSets \X FlatSets) \cup (FlatDicts \X FlatDicts) \cup (Small \X Small)
    \cup (NestedLists \X NestedLists) \cup (NestedSets \X NestedSets)
    \cup (NestedDicts \X NestedDicts)

(***************************************************************************)
(* The operations of JsonDiffer with the default options (compact syntax,  *)
(* no load, no dump, no marshal).                                          *)
(***************************************************************************)
\* The methods of CompactJsonDiffSyntax (class body, lines 45-131).
CompactMethods ==
    {"emit_set_diff", "emit_list_diff", "emit_dict_diff", "emit_value_diff", "patch"}

\* self.options.syntax.<name>: the bound method, or AttributeError.
SyntaxAttr(name) ==
    IF name \in CompactMethods THEN [t |-> "method", v |-> name]
    ELSE Err("AttributeError")

Init ==
    /\ \E p \in InputPairs : a = p[1] /\ b = p[2]
    /\ same \in {x \in BOOLEAN : x => a = b}
    /\ d = None
    /\ s = None
    /\ out = None
    /\ after = None
    /\ esc = <<"$">>
    /\ wire = None
    /\ pc = "start"

\* JsonDiffer.diff / JsonDiffer.similarity: both return a part of _obj_diff.
Diff ==
    /\ pc = "start"
    /\ LET r == ObjDiff(a, b, same) IN d' = r[1] /\ s' = r[2]
    /\ pc' = "diffed"
    /\ UNCHANGED <<a, b, same, out, after, esc, wire>>

\* JsonDiffer.patch(a, d)
Patch ==
    /\ pc \in {"diffed", "given"}
    /\ LET r == PatchR(a, d) IN out' = r.res /\ after' = r.base
    /\ pc' = "patched"
    /\ UNCHANGED <<a, b, same, d, s, esc, wire>>

\* JsonDiffer.unpatch(b, d): calls self.options.syntax.unpatch(b, d)
Unpatch ==
    /\ pc = "diffed"
    /\ out' = SyntaxAttr("unpatch")
    /\ after' = b
    /\ pc' = "unpatched"
    /\ UNCHANGED <<a, b, same, d, s, esc, wire>>

Next == Diff \/ Patch \/ Unpatch

Spec == Init /\ [][Next]_vars

(***************************************************************************)
(* patch applied to hand-written deltas (specification SpecPatch): map and *)
(* sequence bases against deltas of one or two entries.                    *)
(***************************************************************************)
OneOrTwo(S) == {<<x>> : x \in S} \cup {<<x, y>> : x \in S, y \in S}
Positions == {Num(n) : n \in 0..(MaxLen - 1)}

DeleteKeyEntries == {<<delete, List(ks)>> : ks \in OneOrTwo({KeyX, KeyY})}
NestedDeltas ==
    {Num(1), Dict(<<<<KeyY, Num(1)>>>>)}
    \cup {Dict(<<<<delete, List(<<k>>)>>>>) : k \in {KeyX, KeyY, Num(0)}}
KeyEntries == {<<k, v>> : k \in {KeyX, KeyY}, v \in NestedDeltas}
PositionEntries ==
    {<<Num(0), v>> : v \in {Num(1), Dict(<<<<delete, List(<<KeyY>>)>>>>)}}
    \cup {<<insert, List(<<Tuple(<<Num(0), Num(1)>>)>>)>>}
ReplaceEntries == {<<replace, Num(1)>>}
MapDeltaEntries ==
    DeleteKeyEntries \cup KeyEntries \cup PositionEntries \cup ReplaceEntries

DeltasOf(E) ==
    {Dict(<<e>>) : e \in E}
    \cup {Dict(<<p[1], p[2]>>) : p \in {q \in E \X E : q[1][1] # q[2][1]}}

MapPatchInputs == (FlatDicts \cup NestedDicts \cup NestedLists) \X DeltasOf(MapDeltaEntries)

SeqDeltas ==
    {Dict(<<<<delete, List(ps)>>>>) : ps \in OneOrTwo(Positions)}
    \cup {Dict(<<<<delete, List(ps)>>, <<insert, List(<<Tuple(<<Num(0), Num(MaxInt)>>)>>)>>>>) :
            ps \in OneOrTwo(Positions)}
SeqPatchInputs == FlatLists \X SeqDeltas

InitPatch ==
    /\ \E p \in MapPatchInputs \cup SeqPatchInputs : a = p[1] /\ d = p[2]
    /\ b = None
    /\ same = FALSE
    /\ s = None
    /\ out = None
    /\ after = None
    /\ esc = <<"$">>
    /\ wire = None
    /\ pc = "given"

NextPatch == Patch

SpecPatch == InitPatch /\ [][NextPatch]_vars

(***************************************************************************)
(* marshal and unmarshal under a configured escape token (specification    *)
(* SpecMarshal).                                                           *)
(***************************************************************************)
Alphabet == {"$", "a"}
Tokens == OneOrTwo(Alphabet)
MarshalStrings ==
    {Str(cs) : cs \in SeqsUpTo(Alphabet, MaxLen)}
    \cup {Str(e \o m.v) : e \in Tokens, m \in {add, delete}}
MarshalLeaves == MarshalStrings \cup (all_symbols \ {missing}) \cup {Num(1)}
MarshalDeltas ==
    MarshalLeaves
    \cup {List(<<x>>) : x \in MarshalLeaves}
    \cup {Dict(<<<<k, x>>>>) : k \in MarshalLeaves, x \in MarshalLeaves}

InitMarshal ==
    /\ esc \in Tokens
    /\ d \in MarshalDeltas
    /\ a = None
    /\ b = None
    /\ same = FALSE
    /\ s = None
    /\ out = None
    /\ after = None
    /\ wire = None
    /\ pc = "delta"

\* JsonDiffer.marshal(d)
Marshal ==
    /\ pc = "delta"
    /\ wire' = marshal(esc, d)
    /\ pc' = "marshalled"
    /\ UNCHANGED <<a, b, same, d, s, out, after, esc>>

\* JsonDiffer.unmarshal(d)
Unmarshal ==
    /\ pc = "marshalled"
    /\ out' = unmarshal(esc, wire)
    /\ pc' = "unmarshalled"
    /\ UNCHANGED <<a, b, same, d, s, after, esc, wire>>

NextMarshal == Marshal \/ Unmarshal

SpecMarshal == InitMarshal /\ [][NextMarshal]_vars

(***************************************************************************)
(* Properties of diff, similarity, patch and unpatch (specification Spec). *)
(***************************************************************************)
InUnit(sc) == RLeq(Zero, sc) /\ RLeq(sc, One)

\* The shape of a value: map, sequence, set or scalar.
Shape(x) ==
    CASE x.t = "dict" -> "map"
      [] x.t \in {"list", "tuple"} -> "sequence"
      [] x.t = "set" -> "set"
      [] OTHER -> "scalar"

\* C1: round trip -- patch(a, diff(a, b)) equals b.
C1_RoundTrip == pc = "patched" => PyEq(out, b)

\* C1 witness: a sequence delta with an insertion and a nested change was
\* patched back to b.
C1_Witness ==
    /\ pc = "patched"
    /\ a.t = "list"
    /\ d.t = "dict"
    /\ DictHas(d.v, insert)
    /\ \E k \in 0..MaxLen : DictHas(d.v, Num(k))
    /\ PyEq(out, b)

\* C2: identity -- for equal values (the same object, or distinct objects
\* equal by value) diff is the empty mapping and similarity is exactly 1.
C2_Identity == (pc = "diffed" /\ PyEq(a, b)) => (d = Dict(<<>>) /\ s = One)

\* C2 witness: two distinct, equal, non-empty maps holding a container.
C2_Witness ==
    /\ pc = "diffed"
    /\ ~same
    /\ PyEq(a, b)
    /\ a.t = "dict"
    /\ \E i \in 1..Len(a.v) : a.v[i][2].t \in {"dict", "list"}

\* The scores of the recursive comparisons one level below (x, y).
SubScores(x, y) ==
    IF x.t = y.t /\ x.t \in {"list", "tuple"}
    THEN {ObjDiff(x.v[i], y.v[j], FALSE)[2] : i \in 1..Len(x.v), j \in 1..Len(y.v)}
    ELSE IF x.t = "set" /\ y.t = "set"
    THEN {ObjDiff(u, w, FALSE)[2] : u \in x.v \ y.v, w \in y.v \ x.v}
    ELSE IF x.t = "dict" /\ y.t = "dict"
    THEN {ObjDiff(x.v[i][2], DictGet(y.v, x.v[i][1]), FALSE)[2] :
            i \in {k \in 1..Len(x.v) : DictHas(y.v, x.v[k][1])}}
    ELSE {}

\* C3: score bounds -- the similarity, and the score of every recursive
\* comparison, lies in [0, 1].
C3_ScoreBounds ==
    pc = "diffed" => (InUnit(s) /\ \A sc \in SubScores(a, b) : InUnit(sc))

\* C3 witness: a comparison of maps with a partially similar member.
C3_Witness ==
    /\ pc = "diffed"
    /\ a.t = "dict"
    /\ b.t = "dict"
    /\ \E sc \in SubScores(a, b) : RLess(Zero, sc) /\ RLess(sc, One)
    /\ RLess(Zero, s)
    /\ RLess(s, One)

\* The cases C4 speaks of: different shapes, or two sets without a common
\* element (two empty sets are equal values, the case of C2).
DisjointSets(x, y) ==
    x.t = "set" /\ y.t = "set" /\ x.v \cap y.v = {} /\ x.v \cup y.v # {}
NoStructuralSimilarity(x, y) == Shape(x) # Shape(y) \/ DisjointSets(x, y)

\* C4 as stated: in those cases diff is a full replacement of b and the
\* similarity is 0.
C4_Original ==
    (pc = "diffed" /\ NoStructuralSimilarity(a, b))
        => (d = FullReplace(b) /\ s = Zero)

\* No removed element of x is at all similar to an added element of y.
NoSimilarPair(x, y) == \A u \in x.v, w \in y.v : ObjDiff(u, w, FALSE)[2] = Zero

\* C4 amended: for different shapes, and for disjoint sets, diff is a full
\* replacement of b; the similarity is 0 for different shapes, and for
\* disjoint sets exactly when no element of a is similar to an element of b.
C4_FullReplacement ==
    (pc = "diffed" /\ NoStructuralSimilarity(a, b))
        => /\ d = FullReplace(b)
           /\ Shape(a) # Shape(b) => s = Zero
           /\ DisjointSets(a, b) => (s = Zero <=> NoSimilarPair(a, b))

\* C4 witness: disjoint sets of tuples, replaced in full with a positive
\* similarity.
C4_Witness ==
    /\ pc = "diffed"
    /\ DisjointSets(a, b)
    /\ \E u \in a.v : u.t = "tuple"
    /\ d = b
    /\ RLess(Zero, s)

\* C6: unpatch(b, diff(a, b)) completes and returns a value equal to a.
C6_UnpatchInverts == pc = "unpatched" => (~IsErr(out) /\ PyEq(out, a))

\* The matched pairs (i, j) of the backtrack with 0 < s < 1.
ChangedPairs(X, Y) ==
    LET r == ListEdits(X, Y)
    IN {<<r[k].xi, r[k].yj>> :
          k \in {n \in 1..Len(r) : r[n].sign = 0 /\ RLess(r[n].s, One)}}

SequencePair == pc = "diffed" /\ ~same /\ a.t = b.t /\ a.t \in {"list", "tuple"}

\* C10 as stated: a matched pair (X[i-1], Y[j-1]) with 0 < s < 1 is recorded
\* in the delta under its source position i-1.
C10_Original ==
    SequencePair =>
        \A p \in ChangedPairs(a.v, b.v) :
            /\ d.t = "dict"
            /\ DictHas(d.v, Num(p[1] - 1))
            /\ DictGet(d.v, Num(p[1] - 1)) = ObjDiff(a.v[p[1]], b.v[p[2]], FALSE)[1]

\* C10 amended: the pair is recorded under its target position j-1.
C10_TargetPosition ==
    SequencePair =>
        \A p \in ChangedPairs(a.v, b.v) :
            /\ d.t = "dict"
            /\ DictHas(d.v, Num(p[2] - 1))
            /\ DictGet(d.v, Num(p[2] - 1)) = ObjDiff(a.v[p[1]], b.v[p[2]], FALSE)[1]

\* C10 witness: a changed pair whose source and target positions differ.
C10_Witness ==
    /\ SequencePair
    /\ \E p \in ChangedPairs(a.v, b.v) : p[1] # p[2]

(***************************************************************************)
(* Properties of patch on hand-written deltas (specification SpecPatch).   *)
(***************************************************************************)
PatchedMap == pc = "patched" /\ a.t = "dict" /\ d.t = "dict"

\* The keys listed under the delete marker of delta dd.
DeleteList(dd) == IterSeq(DictGet(dd.v, delete))
Listed(dd) == {DeleteList(dd)[i] : i \in 1..Len(DeleteList(dd))}

\* An entry of dd other than the delete marker raises e when x is patched
\* with that entry alone.
EntryRaises(x, dd, e) ==
    /\ IsErr(e)
    /\ \E i \in 1..Len(dd.v) :
          dd.v[i][1] # delete /\ PatchR(x, Dict(<<dd.v[i]>>)).res = e

\* C7 as stated: on a map base, a delete marker naming a key absent from the
\* base makes patch fail (with the missing-key error, unless another entry
\* raises first) and leaves the base as it was, whichever entries of the
\* delta were processed before.
C7_Original ==
    (PatchedMap /\ DictHas(d.v, delete) /\ ~DictHas(d.v, replace)
       /\ \E k \in Listed(d) : ~DictHas(a.v, k))
        => /\ IsErr(out)
           /\ after = a
           /\ out = Err("KeyError") \/ EntryRaises(a, d, out)

\* Entry i of dd is the delete marker and lists a key that is absent from map
\* x and is not the key of an entry before it.
MissingDelete(x, dd, i) ==
    /\ dd.v[i][1] = delete
    /\ \E k \in Listed(dd) :
          /\ ~DictHas(x.v, k)
          /\ \A j \in 1..(i - 1) : dd.v[j][1] # k

\* The member of x that entry i of dd is patched against (None: there is
\* none, the entry adds a key or is out of range).
Member(x, dd, i) ==
    LET k == dd.v[i][1]
    IN IF x.t = "dict"
       THEN IF DictHas(x.v, k)
               /\ ~\E j \in 1..(i - 1) : dd.v[j][1] = delete /\ k \in Listed(dd)
            THEN DictGet(x.v, k) ELSE None
       ELSE IF x.t = "list" /\ k.t = "int" /\ k.v \in 0..(Len(x.v) - 1)
               /\ ~DictHas(dd.v, delete) /\ ~DictHas(dd.v, insert)
            THEN x.v[k.v + 1] ELSE None

\* Patching x with dd reaches, at x or at a nested map, a delete marker with
\* a missing key.
RECURSIVE MustFail(_, _)
MustFail(x, dd) ==
    /\ x.t \in {"dict", "list"}
    /\ dd.t = "dict"
    /\ dd.v # <<>>
    /\ ~DictHas(dd.v, replace)
    /\ \E i \in 1..Len(dd.v) :
          \/ x.t = "dict" /\ MissingDelete(x, dd, i)
          \/ /\ dd.v[i][1] \notin {delete, insert}
             /\ Member(x, dd, i) # None
             /\ MustFail(Member(x, dd, i), dd.v[i][2])

\* C7 amended: when the delta has no replace marker and the missing key is
\* not added by an entry before the delete marker, patch fails -- with the
\* missing-key error unless another entry raises first -- and the base,
\* nested containers included, is as it was before the call.
C7_AllOrNothing ==
    (pc = "patched" /\ MustFail(a, d))
        => /\ IsErr(out)
           /\ after = a
           /\ out = Err("KeyError") \/ EntryRaises(a, d, out)

\* C7 witness: an entry changed a nested map of the working copy before the
\* delete marker met its missing key.
C7_Witness ==
    /\ PatchedMap
    /\ Len(d.v) = 2
    /\ d.v[2][1] = delete
    /\ Member(a, d, 1) # None
    /\ ~IsErr(PatchR(Member(a, d, 1), d.v[1][2]).res)
    /\ MissingDelete(a, d, 2)
    /\ out = Err("KeyError")
    /\ after = a

\* A sequence-shaped delta: integer position keys and/or an insert marker.
SequenceShaped(dd) ==
    /\ dd.t = "dict"
    /\ dd.v # <<>>
    /\ \A i \in 1..Len(dd.v) : dd.v[i][1].t = "int" \/ dd.v[i][1] = insert

\* C8: a sequence-shaped delta applied to a map base makes patch fail.
C8_InvalidDelta == (PatchedMap /\ SequenceShaped(d)) => IsErr(out)

\* The elements of xs whose 0-based positions are not in ps.
RECURSIVE Without(_, _, _)
Without(xs, ps, i) ==
    IF i > Len(xs) THEN <<>>
    ELSE (IF Num(i - 1) \in ps THEN <<>> ELSE <<xs[i]>>) \o Without(xs, ps, i + 1)

\* A delta that only deletes distinct in-range positions of sequence x.
DeletesOnly(x, dd) ==
    /\ x.t = "list"
    /\ dd.t = "dict"
    /\ Len(dd.v) = 1
    /\ dd.v[1][1] = delete
    /\ Cardinality(Listed(dd)) = Len(DeleteList(dd))
    /\ \A p \in Listed(dd) : p.t = "int" /\ p.v \in 0..(Len(x.v) - 1)

\* C9: patch removes the elements at the listed positions of the original
\* sequence, in whatever order the positions are listed.
C9_DeleteByOriginalIndex ==
    (pc = "patched" /\ DeletesOnly(a, d))
        => out = List(Without(a.v, Listed(d), 1))

(***************************************************************************)
(* Properties of marshal and unmarshal (specification SpecMarshal).        *)
(***************************************************************************)
\* C5: marshal/unmarshal round trip -- unmarshal(marshal(d)) = d for every
\* non-empty escape token.
C5_MarshalRoundTrip == pc = "unmarshalled" => out = d

====
